---- MODULE Spec2Model ----
(***************************************************************************)
(* A model of src/index.js: BitDataView (1-bit reads and writes on a byte  *)
(* buffer) and Uint1Array (a bit vector that is a window of such a buffer).*)
(*                                                                         *)
(* Conventions.                                                            *)
(*  - A buffer is a sequence of bytes 0..255 (ArrayBuffer); byte k of the  *)
(*    source is element k+1 of the sequence.  heap is the sequence of the  *)
(*    buffers allocated so far; a buffer is named by its position in heap. *)
(*  - A JavaScript number that is an ARGUMENT of the library is written in *)
(*    halves: the number x is the integer 2x, so 3 is 6 and 1.5 is 3, and  *)
(*    Number.isInteger is evenness.  Fields of a constructed vector        *)
(*    (bitOffset, bitLength) and element values are plain integers.        *)
(*  - An optional argument is <<>> (undefined) or <<x>>.                   *)
(*  - A call that throws leaves status "RangeError" or "TypeError" in last *)
(*    and ends the run: nothing catches it.                                *)
(***************************************************************************)
EXTENDS Integers, Sequences, FiniteSets, TLC

VARIABLES heap, vecs, origin, last

vars == <<heap, vecs, origin, last>>

(***************************************************************************)
(* Bounds of the model.                                                    *)
(***************************************************************************)
\* bytes of the buffer that exists before the first call
BufBytes == 2
\* longest window given explicitly to a constructor
MaxLen == 4
\* longest vector of SpecAlias
AliasLen == 2
\* vectors in a run of SpecAlias: a constructed one, subarrays, their subarrays
MaxVecs == 3
\* longest array of 0s and 1s a vector is constructed from: more than a byte
FromLen == 9

\* bit offsets of the windows of SpecMut: the start of the buffer, inside a
\* byte so that the longest window crosses into the next one, and so that the
\* longest window ends with the buffer
MutOffsets == {0, 5, 8 * BufBytes - MaxLen}
\* bit offset of the windows of SpecAlias: the last bit of the first byte
AliasOffsets == {7}

\* byte patterns the initial buffers are drawn from
ByteSamples == {0, 165, 255}
\* element values written: value & 1 must reduce them
Values == {-1, 0, 1, 2}

(***************************************************************************)
(* Numbers, optional arguments, 32-bit bitwise operators.                  *)
(***************************************************************************)
H(n) == 2 * n
IsInteger(h) == h % 2 = 0
Undefined == <<>>
Some(x) == <<x>>
\* a ?? d
Default(a, d) == IF a = Undefined THEN d ELSE a[1]

RECURSIVE Pow2(_)
Pow2(n) == IF n = 0 THEN 1 ELSE 2 * Pow2(n - 1)

\* a & b, a | b and ~a on two's complement integers: x \div 2 is the
\* arithmetic shift x >> 1 and x % 2 the lowest bit, also for x < 0;
\* shifting ends in 0 (x >= 0) or in -1 (x < 0, all bits set)
RECURSIVE BitAnd(_, _)
BitAnd(a, b) ==
  IF a = 0 \/ b = 0 THEN 0
  ELSE IF a = -1 THEN b
  ELSE IF b = -1 THEN a
  ELSE ((a % 2) * (b % 2)) + 2 * BitAnd(a \div 2, b \div 2)

RECURSIVE BitOr(_, _)
BitOr(a, b) ==
  IF a = 0 THEN b
  ELSE IF b = 0 THEN a
  ELSE IF a = -1 \/ b = -1 THEN -1
  ELSE (IF a % 2 = 1 \/ b % 2 = 1 THEN 1 ELSE 0) + 2 * BitOr(a \div 2, b \div 2)

BitNot(a) == -a - 1
\* a >> n for a >= 0
ShiftRight(a, n) == a \div Pow2(n)

(***************************************************************************)
(* BitDataView                                                             *)
(***************************************************************************)
\* DataView.getUint8 / setUint8 on the buffer buf; setUint8 stores value mod 256
getUint8(buf, byteOffset) == buf[byteOffset + 1]
setUint8(buf, byteOffset, value) == [buf EXCEPT ![byteOffset + 1] = value % 256]

getUint1(buf, bitOffset) ==
  LET byteOffset == bitOffset \div 8
      bitMask == ShiftRight(128, bitOffset % 8)
  IN IF BitAnd(getUint8(buf, byteOffset), bitMask) # 0 THEN 1 ELSE 0

\* setUint1 with the bits of a byte counted from the least significant one
setUint1_lsb(buf, bitOffset, value) ==
  LET byteOffset == bitOffset \div 8
      bitMask == Pow2(bitOffset % 8)
  IN IF BitAnd(value, 1) # 0
     THEN setUint8(buf, byteOffset, BitOr(getUint8(buf, byteOffset), bitMask))
     ELSE setUint8(buf, byteOffset, BitAnd(getUint8(buf, byteOffset), BitNot(bitMask)))

setUint1(buf, bitOffset, value) ==
  LET byteOffset == bitOffset \div 8
      bitMask == ShiftRight(128, bitOffset % 8)
  IN IF BitAnd(value, 1) # 0
     THEN setUint8(buf, byteOffset, BitOr(getUint8(buf, byteOffset), bitMask))
     ELSE setUint8(buf, byteOffset, BitAnd(getUint8(buf, byteOffset), BitNot(bitMask)))

(***************************************************************************)
(* Uint1Array: the constructor.                                            *)
(*                                                                         *)
(* A source is what the caller passes first: a number (in halves) or       *)
(* nothing, an ArrayBuffer (named by its place in heap), a Uint1Array (the *)
(* Proxy of a vector, given by its fields) or an Array of element values.  *)
(* An outcome is how a call ended, the heap it left and the vector it made.*)
(***************************************************************************)
NumberSrc(n) == [kind |-> "number", n |-> n]
UndefinedSrc == [kind |-> "undefined"]
BufferSrc(id) == [kind |-> "ArrayBuffer", id |-> id]
VectorSrc(vec) == [kind |-> "Uint1Array", vec |-> vec]
ArraySrc(items) == [kind |-> "Array", items |-> items]

Vec(buffer, bitOffset, bitLength) ==
  [buffer |-> buffer, bitOffset |-> bitOffset, bitLength |-> bitLength]
NoVec == Vec(0, 0, 0)

Ok(h, vec) == [status |-> "ok", heap |-> h, vec |-> vec]
Throw(kind, h) == [status |-> kind, heap |-> h, vec |-> NoVec]

\* Math.ceil(n / 8) for an integer n >= 0
Ceil8(n) == (n + 7) \div 8
\* new ArrayBuffer(n): n zero bytes
ArrayBuffer(n) == [k \in 1..n |-> 0]

\* get byteOffset(), get byteLength(), get length()
byteOffset(vec) == vec.bitOffset \div 8
byteLength(vec) == Ceil8(vec.bitOffset + vec.bitLength) - (vec.bitOffset \div 8)
length(vec) == vec.bitLength

\* typeof source !== 'object'
NotObject(source) == source.kind \in {"number", "undefined"}
\* 'byteLength' in source: an own property of an ArrayBuffer, and the getter
\* byteLength of Uint1Array.prototype, which the Proxy (no has trap) passes on
HasByteLength(source) == source.kind \in {"ArrayBuffer", "Uint1Array"}
\* source.byteLength
SourceByteLength(h, source) ==
  IF source.kind = "ArrayBuffer" THEN Len(h[source.id]) ELSE byteLength(source.vec)

\* the loop below with the condition i < source.length - 1
RECURSIVE CopyIn_short(_, _, _)
CopyIn_short(buf, items, i) ==
  IF i >= Len(items) - 1 THEN buf
  ELSE CopyIn_short(setUint1(buf, i, items[i + 1]), items, i + 1)

\* the loop of the array-like branch: setUint1(i, source[i]) for i = from..
RECURSIVE CopyIn(_, _, _)
CopyIn(buf, items, i) ==
  IF i >= Len(items) THEN buf
  ELSE CopyIn(setUint1(buf, i, items[i + 1]), items, i + 1)

\* the bounds checks of the buffer branch on offset and length (in halves)
\* against the bits of the buffer: the RangeError they end in, or "ok"
\* the checks without the last one, of length + offset
ViewChecks_nolen(offset, len, bits) ==
  IF ~IsInteger(offset) \/ offset < 0 THEN "RangeError"
  ELSE IF ~IsInteger(len) \/ len < 0 THEN "RangeError"
  ELSE IF offset > H(bits) THEN "RangeError"
  ELSE "ok"

\* the checks with >= for > in the last one
ViewChecks_ge(offset, len, bits) ==
  IF ~IsInteger(offset) \/ offset < 0 THEN "RangeError"
  ELSE IF ~IsInteger(len) \/ len < 0 THEN "RangeError"
  ELSE IF offset > H(bits) THEN "RangeError"
  ELSE IF len + offset >= H(bits) THEN "RangeError"
  ELSE "ok"

ViewChecks(offset, len, bits) ==
  IF ~IsInteger(offset) \/ offset < 0 THEN "RangeError"
  ELSE IF ~IsInteger(len) \/ len < 0 THEN "RangeError"
  ELSE IF offset > H(bits) THEN "RangeError"
  ELSE IF len + offset > H(bits) THEN "RangeError"
  ELSE "ok"

\* new Uint1Array(source, offset, length) on the heap h
Constructor(h, source, offset, len) ==
  IF NotObject(source)
  THEN LET n == IF source.kind = "undefined" THEN 0 ELSE source.n
       IN IF ~IsInteger(n) \/ n < 0 THEN Throw("RangeError", h)
          ELSE Ok(Append(h, ArrayBuffer(Ceil8(n \div 2))), Vec(Len(h) + 1, 0, n \div 2))
  ELSE IF HasByteLength(source)
  THEN LET bits == SourceByteLength(h, source) * 8
           off == Default(offset, 0)
           ln == Default(len, H(bits) - off)
       IN IF ViewChecks(off, ln, bits) # "ok" THEN Throw(ViewChecks(off, ln, bits), h)
          \* new BitDataView(source): DataView takes an ArrayBuffer only
          ELSE IF source.kind # "ArrayBuffer" THEN Throw("TypeError", h)
          ELSE Ok(h, Vec(source.id, off \div 2, ln \div 2))
  ELSE LET n == Len(source.items)
       IN Ok(Append(h, CopyIn(ArrayBuffer(Ceil8(n)), source.items, 0)), Vec(Len(h) + 1, 0, n))

(***************************************************************************)
(* The Proxy traps: vec[index] and vec[index] = value, index in halves.    *)
(***************************************************************************)
InRange(vec, index) == IsInteger(index) /\ index >= 0 /\ index < H(vec.bitLength)

\* the get trap: <<bit>>, or <<>> for undefined
ProxyGet(h, vec, index) ==
  IF InRange(vec, index)
  THEN Some(getUint1(h[vec.buffer], (index \div 2) + vec.bitOffset))
  ELSE Undefined

\* the set trap: what it returns and the heap it leaves
\* the set trap with the index checked against the buffer, not the window
ProxySet_unchecked(h, vec, index, value) ==
  IF IsInteger(index) /\ index >= 0 /\ (index \div 2) + vec.bitOffset < 8 * Len(h[vec.buffer])
  THEN [ret |-> TRUE,
        heap |-> [h EXCEPT ![vec.buffer] = setUint1(@, (index \div 2) + vec.bitOffset, value)]]
  ELSE [ret |-> FALSE, heap |-> h]

ProxySet(h, vec, index, value) ==
  IF InRange(vec, index)
  THEN [ret |-> TRUE,
        heap |-> [h EXCEPT ![vec.buffer] = setUint1(@, (index \div 2) + vec.bitOffset, value)]]
  ELSE [ret |-> FALSE, heap |-> h]

\* the statement vec[index] = value: in strict mode code a set trap that
\* returns false makes the assignment throw a TypeError
Assign(h, vec, index, value, strict) ==
  LET r == ProxySet(h, vec, index, value)
  IN IF ~r.ret /\ strict THEN Throw("TypeError", r.heap) ELSE Ok(r.heap, vec)

\* src/index.js is strict mode code ("use strict")
LibraryStrict == TRUE

(***************************************************************************)
(* Uint1Array: methods.                                                    *)
(***************************************************************************)
\* begin and end of subarray after its normalisation (halves)
SubBegin(vec, begin) ==
  LET b0 == Default(begin, 0)
      b1 == IF b0 < 0 THEN H(vec.bitLength) + b0 ELSE b0
  IN IF b1 < 0 THEN 0 ELSE b1

SubEnd(vec, end) ==
  LET e0 == Default(end, H(vec.bitLength))
      e1 == IF e0 < 0 THEN H(vec.bitLength) + e0 ELSE e0
  IN IF e1 > H(vec.bitLength) THEN H(vec.bitLength) ELSE e1

\* subarray with begin taken as a bit offset of the buffer, not of the parent
subarray_nooffset(h, vec, begin, end) ==
  LET b == SubBegin(vec, begin)
      e == SubEnd(vec, end)
      len == IF b > e THEN 0 ELSE e - b
  IN Constructor(h, BufferSrc(vec.buffer), Some(b), Some(len))

subarray(h, vec, begin, end) ==
  LET b == SubBegin(vec, begin)
      e == SubEnd(vec, end)
      len == IF b > e THEN 0 ELSE e - b
  IN Constructor(h, BufferSrc(vec.buffer), Some(H(vec.bitOffset) + b), Some(len))

slice(h, vec, start, end) ==
  LET sub == subarray(h, vec, start, end)
  IN IF sub.status # "ok" THEN sub
     ELSE Constructor(sub.heap, VectorSrc(sub.vec), Undefined, Undefined)

\* the loop of fill: sub[i] = value for i = from .. sub.bitLength - 1
RECURSIVE FillLoop(_, _, _, _)
FillLoop(h, sub, value, i) ==
  IF i >= sub.bitLength THEN Ok(h, sub)
  ELSE LET a == Assign(h, sub, H(i), value, LibraryStrict)
       IN IF a.status # "ok" THEN a ELSE FillLoop(a.heap, sub, value, i + 1)

fill(h, vec, value, start, end) ==
  LET sub == subarray(h, vec, start, end)
  IN IF sub.status # "ok" THEN sub
     ELSE LET f == FillLoop(sub.heap, sub.vec, value, 0)
          IN IF f.status # "ok" THEN f ELSE Ok(f.heap, vec)

\* array.length and array[i] of the argument of set
SourceLength(source) ==
  IF source.kind = "Array" THEN Len(source.items) ELSE length(source.vec)
\* undefined & 1 is 0
SourceAt(h, source, i) ==
  IF source.kind = "Array" THEN source.items[i + 1]
  ELSE Default(ProxyGet(h, source.vec, H(i)), 0)

\* the loop of set: this[i + offset] = array[i] for i = from .. array.length - 1
RECURSIVE SetLoop(_, _, _, _, _)
SetLoop(h, vec, source, offset, i) ==
  IF i >= SourceLength(source) THEN Ok(h, vec)
  ELSE LET a == Assign(h, vec, H(i) + offset, SourceAt(h, source, i), LibraryStrict)
       IN IF a.status # "ok" THEN a ELSE SetLoop(a.heap, vec, source, offset, i + 1)

\* set with the length checked element by element, inside the loop
set_unchecked(h, vec, source, offset) ==
  LET off == Default(offset, 0)
  IN IF off < 0 THEN Throw("RangeError", h)
     ELSE LET r == SetLoop(h, vec, source, off, 0)
          IN IF r.status = "ok" THEN r ELSE Throw("RangeError", r.heap)

set(h, vec, source, offset) ==
  LET off == Default(offset, 0)
  IN IF off < 0 \/ off + H(SourceLength(source)) > H(vec.bitLength)
     THEN Throw("RangeError", h)
     ELSE SetLoop(h, vec, source, off, 0)

\* the loop of copyWithin: this[target + i] = toCopy[i] for i = from ..
RECURSIVE CopyLoop(_, _, _, _, _)
CopyLoop(h, vec, toCopy, target, i) ==
  IF i >= toCopy.bitLength THEN Ok(h, vec)
  ELSE LET a == Assign(h, vec, target + H(i),
                       Default(ProxyGet(h, toCopy, H(i)), 0), LibraryStrict)
       IN IF a.status # "ok" THEN a ELSE CopyLoop(a.heap, vec, toCopy, target, i + 1)

copyWithin(h, vec, target, start, end) ==
  LET toCopy == slice(h, vec, start, end)
  IN IF toCopy.status # "ok" THEN Throw(toCopy.status, toCopy.heap)
     ELSE CopyLoop(toCopy.heap, vec, toCopy.vec, target, 0)

\* [...this]: the iterator yields this[i] for i = 0 .. bitLength - 1
Spread(h, vec) == [k \in 1..vec.bitLength |-> Default(ProxyGet(h, vec, H(k - 1)), 0)]

\* Array.prototype.sort with the comparator (a, b) => a - b
RECURSIVE Insert(_, _)
Insert(x, s) ==
  IF s = <<>> THEN <<x>>
  ELSE IF Head(s) - x > 0 THEN <<x>> \o s
  ELSE <<Head(s)>> \o Insert(x, Tail(s))
RECURSIVE ArraySort(_)
ArraySort(s) == IF s = <<>> THEN <<>> ELSE Insert(s[Len(s)], ArraySort(SubSeq(s, 1, Len(s) - 1)))

\* Array.prototype.reverse
ArrayReverse(s) == [k \in 1..Len(s) |-> s[Len(s) + 1 - k]]

\* sort with the comparator (a, b) => b - a
sort_desc(h, vec) ==
  set(h, vec, ArraySrc(ArrayReverse(ArraySort(Spread(h, vec)))), Undefined)

sort(h, vec) == set(h, vec, ArraySrc(ArraySort(Spread(h, vec))), Undefined)

reverse(h, vec) == set(h, vec, ArraySrc(ArrayReverse(Spread(h, vec))), Undefined)

(***************************************************************************)
(* The record of the last call: the operation, its receiver (0: none), its *)
(* arguments, how it ended, what it returned (<<>>: nothing) and the heap  *)
(* before it.                                                              *)
(***************************************************************************)
Call(op, self, args, status, ret, pre) ==
  [op |-> op, self |-> self, args |-> args, status |-> status, ret |-> ret, pre |-> pre]

NoCall == Call("none", 0, <<>>, "ok", <<>>, <<>>)

\* no call is on record: the caller is about to make one.  A call that threw
\* stays on record for good.
Idle == last.op = "none"

\* how a vector was made, kept for the aliasing property: by a constructor
\* (parent 0); by vecs[parent].subarray(x, y) with indices 0 <= x <= y <=
\* length of the parent as arguments, an argument left out counting as its
\* default (exact, with x and y as passed); or by another subarray call
Root == [parent |-> 0, exact |-> FALSE, x |-> 0, y |-> 0]
IndexArgs(vec, begin, end) ==
  LET b == Default(begin, 0)
      e == Default(end, H(vec.bitLength))
  IN IsInteger(b) /\ IsInteger(e) /\ 0 <= b /\ b <= e /\ e <= H(vec.bitLength)
\* by a constructor from the elements of an array
From(items) == [parent |-> 0, exact |-> FALSE, x |-> 0, y |-> 0, items |-> items]
Sub(parent, vec, begin, end) ==
  IF IndexArgs(vec, begin, end)
  THEN [parent |-> parent, exact |-> TRUE,
        x |-> Default(begin, 0) \div 2, y |-> Default(end, H(vec.bitLength)) \div 2]
  ELSE [parent |-> parent, exact |-> FALSE, x |-> 0, y |-> 0]

(***************************************************************************)
(* Actions: one call of the library each.  A call that makes a vector      *)
(* appends it to vecs; a call that throws changes nothing but last.        *)
(***************************************************************************)
\* the state after a call that may make a vector
Made(op, self, args, out, how) ==
  /\ heap' = out.heap
  /\ vecs' = IF out.status = "ok" THEN Append(vecs, out.vec) ELSE vecs
  /\ origin' = IF out.status = "ok" THEN Append(origin, how) ELSE origin
  /\ last' = Call(op, self, args, out.status,
                  IF out.status = "ok" THEN <<Len(vecs) + 1>> ELSE <<>>, heap)

\* the state after a call on vecs[self] that makes no vector
Done(op, self, args, out, ret) ==
  /\ heap' = out.heap
  /\ last' = Call(op, self, args, out.status,
                  IF out.status = "ok" THEN ret ELSE <<>>, heap)
  /\ UNCHANGED <<vecs, origin>>

\* new Uint1Array(n), new Uint1Array()
NewLength(n) ==
  /\ Idle /\ vecs = <<>>
  /\ Made("newLength", 0, <<n>>,
          Constructor(heap, IF n = Undefined THEN UndefinedSrc ELSE NumberSrc(n[1]),
                      Undefined, Undefined),
          Root)

\* new Uint1Array(buffer, offset, length)
NewView(id, offset, len) ==
  /\ Idle /\ vecs = <<>>
  /\ Made("newView", 0, <<id, offset, len>>, Constructor(heap, BufferSrc(id), offset, len), Root)

\* new Uint1Array(items), Uint1Array.from(items), Uint1Array.of(...items)
NewFrom(items) ==
  /\ Idle /\ vecs = <<>>
  /\ Made("newFrom", 0, <<items>>, Constructor(heap, ArraySrc(items), Undefined, Undefined),
          From(items))

Subarray(v, begin, end) ==
  /\ Idle
  /\ Made("subarray", v, <<begin, end>>, subarray(heap, vecs[v], begin, end),
          Sub(v, vecs[v], begin, end))

Slice(v, start, end) ==
  /\ Idle
  /\ Made("slice", v, <<start, end>>, slice(heap, vecs[v], start, end), Root)

\* vecs[v][index] = value in the caller's code, which is strict mode code or not
Write(v, index, value, strict) ==
  /\ Idle
  /\ Done("write", v, <<index, value, strict>>,
          Assign(heap, vecs[v], index, value, strict),
          <<ProxySet(heap, vecs[v], index, value).ret>>)

\* vecs[v][index]
Read(v, index) ==
  /\ Idle
  /\ Done("read", v, <<index>>, Ok(heap, vecs[v]), ProxyGet(heap, vecs[v], index))

\* [...vecs[v]]
Iterate(v) ==
  /\ Idle
  /\ Done("iterate", v, <<>>, Ok(heap, vecs[v]), Spread(heap, vecs[v]))

Fill(v, value, start, end) ==
  /\ Idle
  /\ Done("fill", v, <<value, start, end>>, fill(heap, vecs[v], value, start, end), <<v>>)

Set(v, items, offset) ==
  /\ Idle
  /\ Done("set", v, <<items, offset>>, set(heap, vecs[v], ArraySrc(items), offset), <<>>)

\* vecs[v].set(vecs[s], offset)
SetFrom(v, s, offset) ==
  /\ Idle
  /\ Done("setFrom", v, <<s, offset>>, set(heap, vecs[v], VectorSrc(vecs[s]), offset), <<>>)

Sort(v) ==
  /\ Idle
  /\ Done("sort", v, <<>>, sort(heap, vecs[v]), <<v>>)

Reverse(v) ==
  /\ Idle
  /\ Done("reverse", v, <<>>, reverse(heap, vecs[v]), <<v>>)

CopyWithin(v, target, start, end) ==
  /\ Idle
  /\ Done("copyWithin", v, <<target, start, end>>,
          copyWithin(heap, vecs[v], target, start, end), <<v>>)

\* the caller goes on after a call that returned: the record of the call is
\* history, which the next call does not see
Forget ==
  /\ last.op # "none" /\ last.status = "ok"
  /\ last' = NoCall
  /\ UNCHANGED <<heap, vecs, origin>>

(***************************************************************************)
(* Input sets.                                                             *)
(***************************************************************************)
\* the numbers lo, lo + 0.5, .., hi in halves, and undefined
Numbers(lo, hi) == {Some(h) : h \in H(lo)..H(hi)} \cup {Undefined}
\* the integers lo..hi in halves, and undefined
Integers(lo, hi) == {Some(H(n)) : n \in lo..hi} \cup {Undefined}
\* the sequences of element values of length at most n
Items(n) == UNION {[1..k -> Values] : k \in 0..n}

SampleBuffers == [1..BufBytes -> ByteSamples]
BufBits == 8 * BufBytes

(***************************************************************************)
(* Specification SpecBits: a buffer of BufBytes sample bytes and one       *)
(* setUint1 on it.                                                         *)
(***************************************************************************)
InitBits ==
  /\ heap \in {<<b>> : b \in SampleBuffers}
  /\ vecs = <<>>
  /\ origin = <<>>
  /\ last = NoCall

SetUint1(bitOffset, value) ==
  /\ Idle
  /\ heap' = [heap EXCEPT ![1] = setUint1(heap[1], bitOffset, value)]
  /\ last' = Call("setUint1", 0, <<bitOffset, value>>, "ok", <<>>, heap)
  /\ UNCHANGED <<vecs, origin>>

NextBits == \E b \in 0..(BufBits - 1), v \in Values : SetUint1(b, v)

SpecBits == InitBits /\ [][NextBits]_vars

(***************************************************************************)
(* Specification SpecCtor: one constructor call, with a length or over the *)
(* buffer that exists, with every offset and length around the buffer's    *)
(* bounds, whole and fractional.                                           *)
(***************************************************************************)
InitOne ==
  /\ heap = <<[k \in 1..BufBytes |-> 165]>>
  /\ vecs = <<>>
  /\ origin = <<>>
  /\ last = NoCall

NextCtor ==
  \/ \E n \in Numbers(-2, MaxLen) : NewLength(n)
  \/ \E offset \in Numbers(-1, BufBits + 1), len \in Numbers(-1, BufBits + 1) :
       NewView(1, offset, len)

SpecCtor == InitOne /\ [][NextCtor]_vars

(***************************************************************************)
(* Specification SpecWin: a vector is constructed, with a length, as a     *)
(* window of the buffer that exists or of the elements of an array, and    *)
(* one subarray is taken of it, with                                       *)
(* arguments on both sides of every bound.  Every window a subarray can    *)
(* have is also one the constructor makes, so the subarrays of subarrays   *)
(* start from windows this specification starts from as well.              *)
(***************************************************************************)
TakeSubarray(v, begin, end) == Len(vecs) = 1 /\ Subarray(v, begin, end)

NextWin ==
  \/ \E n \in Integers(-1, MaxLen) : NewLength(n)
  \/ \E offset \in Integers(-1, BufBits + 1), len \in Integers(-1, MaxLen) :
       NewView(1, offset, len)
  \/ \E items \in UNION {[1..k -> {0, 1}] : k \in 0..MaxLen} : NewFrom(items)
  \/ \E v \in 1..Len(vecs) :
       \E begin \in Integers(-vecs[v].bitLength - 2, vecs[v].bitLength + 2) \cup {Some(3)},
          end \in Integers(-vecs[v].bitLength - 2, vecs[v].bitLength + 2) :
         TakeSubarray(v, begin, end)
  \/ Forget

SpecWin == InitOne /\ [][NextWin]_vars

(***************************************************************************)
(* Specification SpecAlias: a vector of at most AliasLen elements is       *)
(* constructed, with a length or as a window of the buffer that exists;    *)
(* subarrays of one element or more are taken of it and of its subarrays,  *)
(* with indices of the parent as arguments, until there are MaxVecs        *)
(* vectors; elements are written through any of the vectors, in any order. *)
(***************************************************************************)
MakeSubarray(v, x, y) ==
  /\ Len(vecs) < MaxVecs
  /\ x < y
  /\ Subarray(v, Some(H(x)), Some(H(y)))

NextAlias ==
  \/ \E n \in 0..AliasLen : NewLength(Some(H(n)))
  \/ \E offset \in AliasOffsets, len \in 0..AliasLen :
       NewView(1, Some(H(offset)), Some(H(len)))
  \/ \E v \in 1..Len(vecs) :
       \E x \in 0..vecs[v].bitLength, y \in 0..vecs[v].bitLength : MakeSubarray(v, x, y)
  \/ \E v \in 1..Len(vecs) :
       \E k \in 0..(vecs[v].bitLength - 1), value \in {0, 1, 2} :
         Write(v, H(k), value, TRUE)
  \/ Forget

SpecAlias == InitOne /\ [][NextAlias]_vars

(***************************************************************************)
(* Specification SpecMut: a window of the buffer that exists, aligned or   *)
(* not, is constructed, and then read and changed in place: by indexed     *)
(* reads and writes at indices inside, outside and between the elements,   *)
(* from strict mode code or not, and by fill, set, sort and reverse.       *)
(***************************************************************************)
NextMut ==
  \/ \E offset \in MutOffsets, len \in 0..MaxLen : NewView(1, Some(H(offset)), Some(H(len)))
  \/ \E v \in 1..Len(vecs) :
       \E index \in H(-1)..H(vecs[v].bitLength + 1), value \in Values, strict \in BOOLEAN :
         Write(v, index, value, strict)
  \/ \E v \in 1..Len(vecs) :
       \E index \in H(-1)..H(vecs[v].bitLength + 1) : Read(v, index)
  \/ \E v \in 1..Len(vecs) :
       \E value \in {0, 1, 2},
          start \in Integers(-2, vecs[v].bitLength + 1),
          end \in Integers(-2, vecs[v].bitLength + 1) :
         Fill(v, value, start, end)
  \/ \E v \in 1..Len(vecs) :
       \E items \in UNION {[1..k -> {0, 1, 2}] : k \in 0..2},
          offset \in Integers(-1, vecs[v].bitLength + 1) :
         Set(v, items, offset)
  \/ \E v \in 1..Len(vecs) : Sort(v)
  \/ \E v \in 1..Len(vecs) : Reverse(v)
  \/ Forget

SpecMut == InitOne /\ [][NextMut]_vars

(***************************************************************************)
(* Specification SpecFrom: a vector is constructed from an array, of 0s    *)
(* and 1s and longer than a byte or of other values and shorter, and its   *)
(* elements are read back, one by one and all by its iterator.             *)
(***************************************************************************)
FromItems == UNION {[1..k -> {0, 1}] : k \in 0..FromLen} \cup Items(MaxLen)

NextFrom ==
  \/ \E items \in FromItems : NewFrom(items)
  \/ \E v \in 1..Len(vecs) : \E k \in 0..vecs[v].bitLength : Read(v, H(k))
  \/ \E v \in 1..Len(vecs) : Iterate(v)
  \/ Forget

SpecFrom == InitOne /\ [][NextFrom]_vars

(***************************************************************************)
(* Specification SpecOverlap: a window of the buffer that exists is        *)
(* constructed, one subarray [p, q) is taken of it, elements are written,  *)
(* and the subarray is copied into the vector by set at the offsets where  *)
(* it fits, its window overlapping the one written or not.                 *)
(***************************************************************************)
NextOverlap ==
  \/ \E offset \in MutOffsets, len \in 0..MaxLen : NewView(1, Some(H(offset)), Some(H(len)))
  \/ \E p \in 0..MaxLen, q \in 0..MaxLen :
       /\ vecs # <<>> /\ p <= q /\ q <= vecs[1].bitLength
       /\ TakeSubarray(1, Some(H(p)), Some(H(q)))
  \/ \E v \in 1..Len(vecs) :
       \E k \in 0..(vecs[v].bitLength - 1), value \in {0, 1} :
         Write(v, H(k), value, TRUE)
  \/ \E offset \in 0..MaxLen :
       /\ Len(vecs) = 2 /\ offset + vecs[2].bitLength <= vecs[1].bitLength
       /\ SetFrom(1, 2, Some(H(offset)))
  \/ Forget

SpecOverlap == InitOne /\ [][NextOverlap]_vars

(***************************************************************************)
(* Specification SpecCopy: a window of the buffer that exists is           *)
(* constructed, slices are taken of it, elements are written, and ranges   *)
(* of elements inside it are copied to places inside it by copyWithin.     *)
(***************************************************************************)
NextCopy ==
  \/ \E offset \in MutOffsets, len \in 0..MaxLen : NewView(1, Some(H(offset)), Some(H(len)))
  \/ \E v \in 1..Len(vecs) :
       \E start \in Integers(-vecs[v].bitLength - 1, vecs[v].bitLength + 1),
          end \in Integers(-vecs[v].bitLength - 1, vecs[v].bitLength + 1) :
         Slice(v, start, end)
  \/ \E v \in 1..Len(vecs) :
       \E k \in 0..(vecs[v].bitLength - 1), value \in Values :
         Write(v, H(k), value, TRUE)
  \/ \E v \in 1..Len(vecs) :
       \E target \in 0..vecs[v].bitLength, start \in 0..vecs[v].bitLength :
         \E end \in Integers(start, vecs[v].bitLength) :
           CopyWithin(v, H(target), Some(H(start)), end)
  \/ Forget

SpecCopy == InitOne /\ [][NextCopy]_vars

(***************************************************************************)
(* Properties.                                                             *)
(***************************************************************************)
\* the bit of a byte under the mask 0x80 >> r, by arithmetic
MaskedBit(byte, r) == (byte \div Pow2(7 - r)) % 2
\* the bit at bit position p of a buffer, MSB first
BitAt(buf, p) == MaskedBit(buf[(p \div 8) + 1], p % 8)
\* value & 1 of an integer value
LowBit(value) == value % 2

\* C3: setUint1(b, v) sets exactly the bit with mask 0x80 >> (b mod 8) of byte
\* floor(b / 8) to v & 1, leaves every other bit of the buffer as it was, and
\* getUint1(b) then returns v & 1.
C3_BitAddressing ==
  last.op = "setUint1" =>
    LET b == last.args[1]
        v == last.args[2]
    IN /\ Len(heap[1]) = Len(last.pre[1])
       /\ \A j \in 0..(BufBytes - 1) : heap[1][j + 1] \in 0..255
       /\ \A j \in 0..(BufBytes - 1), r \in 0..7 :
            MaskedBit(heap[1][j + 1], r) =
              IF j = b \div 8 /\ r = b % 8 THEN LowBit(v)
              ELSE MaskedBit(last.pre[1][j + 1], r)
       /\ getUint1(heap[1], b) = LowBit(v)

\* C3 happens: a bit in the second byte, not at a byte's edge, was 0 and is
\* set by the value -1; and one that was 1 is cleared by the value 2
C3_Witness ==
  /\ last.op = "setUint1"
  /\ last.args = <<11, -1>>
  /\ last.pre[1] = <<165, 165>>
  /\ heap[1] = <<165, 181>>

\* element i of a vector as the get trap reads it from the heap h
Elem(h, vec, i) == ProxyGet(h, vec, H(i))

\* C1: for b = a.subarray(x, y) with 0 <= x <= y <= length of a, also when a is
\* itself a subarray: b has y - x elements and b[k] reads what a[x + k] reads,
\* after any writes; a write b[k] = v makes a[x + k] read v & 1 and changes no
\* other element of a; a write a[x + k] = v makes b[k] read v & 1.
C1_ViewAliasing ==
  \A b \in 1..Len(vecs) :
    origin[b].exact =>
      LET a == origin[b].parent
          x == origin[b].x
          y == origin[b].y
          k == last.args[1] \div 2
          v == last.args[2]
      IN /\ vecs[b].bitLength = y - x
         /\ \A i \in 0..(y - x - 1) :
              /\ Elem(heap, vecs[b], i) # Undefined
              /\ Elem(heap, vecs[b], i) = Elem(heap, vecs[a], x + i)
         /\ (last.op = "write" /\ last.self = b) =>
              /\ last.status = "ok"
              /\ Elem(heap, vecs[b], k) = <<LowBit(v)>>
              /\ Elem(heap, vecs[a], x + k) = <<LowBit(v)>>
              /\ \A j \in 0..(vecs[a].bitLength - 1) :
                   j # x + k => Elem(heap, vecs[a], j) = Elem(last.pre, vecs[a], j)
         /\ (last.op = "write" /\ last.self = a /\ k \in x..(y - 1)) =>
              /\ last.status = "ok"
              /\ Elem(heap, vecs[b], k - x) = <<LowBit(v)>>

\* C1 happens: a is the window (7, 2) of the buffer, b = a.subarray(1, 2),
\* c = b.subarray(0, 1), and c[0] = 2 has cleared a[1], the first bit of the
\* second byte
C1_Witness ==
  /\ Len(vecs) = 3
  /\ vecs[1] = Vec(1, 7, 2)
  /\ origin[2] = [parent |-> 1, exact |-> TRUE, x |-> 1, y |-> 2]
  /\ origin[3] = [parent |-> 2, exact |-> TRUE, x |-> 0, y |-> 1]
  /\ last.op = "write" /\ last.self = 3 /\ last.args = <<0, 2, TRUE>>
  /\ Elem(last.pre, vecs[1], 1) = <<1>>
  /\ Elem(heap, vecs[1], 1) = <<0>>
  /\ heap[1] = <<165, 37>>

\* C2: slice(start, end) succeeds and returns a vector with the length and the
\* element values of subarray(start, end), on a buffer allocated by the call;
\* a write through a vector changes no bit of a buffer that is not its own, so
\* none through the slice changes the vector it was taken of, nor the reverse.
C2_SliceIsACopy ==
  /\ last.op = "slice" =>
       LET sub == subarray(last.pre, vecs[last.self], last.args[1], last.args[2])
       IN /\ last.status = "ok"
          /\ sub.status = "ok"
          /\ Len(heap) = Len(last.pre) + 1
          /\ SubSeq(heap, 1, Len(last.pre)) = last.pre
          /\ vecs[last.ret[1]].buffer = Len(heap)
          /\ vecs[last.ret[1]].bitLength = sub.vec.bitLength
          /\ \A i \in 0..(sub.vec.bitLength - 1) :
               Elem(heap, vecs[last.ret[1]], i) = Elem(last.pre, sub.vec, i)
  /\ last.op = "write" =>
       \A id \in 1..Len(heap) : id # vecs[last.self].buffer => heap[id] = last.pre[id]

\* C11: for in-range target, start and end (end left out: the length),
\* copyWithin(target, start, end) returns the vector it was called on, with
\* element target + i equal to the value element start + i had before the
\* call, for every i in [0, end - start) with target + i < length, and every
\* other element as before.
C11_CopyWithinSnapshot ==
  last.op = "copyWithin" =>
    LET vec == vecs[last.self]
        target == last.args[1] \div 2
        start == last.args[2][1] \div 2
        end == Default(last.args[3], H(vec.bitLength)) \div 2
        moved == {target + i : i \in 0..(end - start - 1)} \cap 0..(vec.bitLength - 1)
    IN /\ last.status = "ok"
       /\ last.ret = <<last.self>>
       /\ \A k \in 0..(vec.bitLength - 1) :
            Elem(heap, vec, k) =
              IF k \in moved THEN Elem(last.pre, vec, start + (k - target))
              ELSE Elem(last.pre, vec, k)

\* the bits of the buffer of a vector
BitsOf(vec) == 8 * Len(heap[vec.buffer])

\* C4: every vector made by the constructors and by subarray has
\* bitOffset >= 0, bitLength >= 0 and bitOffset + bitLength <= 8 * byteLength
\* of its buffer; a constructor call asking for another window throws and
\* makes no vector.
C4_WindowInvariant ==
  /\ \A v \in 1..Len(vecs) :
       /\ vecs[v].buffer \in 1..Len(heap)
       /\ vecs[v].bitOffset \in Nat
       /\ vecs[v].bitLength \in Nat
       /\ vecs[v].bitOffset + vecs[v].bitLength <= BitsOf(vecs[v])
  /\ last.op = "newView" =>
       LET bits == 8 * Len(last.pre[last.args[1]])
           off == Default(last.args[2], 0)
           len == Default(last.args[3], H(bits) - off)
       IN (off < 0 \/ len < 0 \/ off + len > H(bits)) =>
            last.status # "ok" /\ vecs = <<>>
  /\ (last.op = "newLength" /\ Default(last.args[1], 0) < 0) =>
       last.status # "ok" /\ vecs = <<>>
  /\ (last.op = "subarray" /\ last.status # "ok") => Len(vecs) = 1

\* C4 happens: a subarray that begins after the end of its parent was made,
\* with a window inside the buffer; and a call was refused
C4_Witness ==
  /\ last.op = "subarray"
  /\ last.status = "ok"
  /\ Len(vecs) = 2
  /\ vecs[1].bitOffset = 9 /\ vecs[1].bitLength = 4
  /\ vecs[2].bitOffset = 15

IsIntegerArg(a) == a = Undefined \/ IsInteger(a[1])

\* begin and end as the specification normalises them: a negative value
\* counts from the end, then clamped into [0, bitLength] (in bits)
Clamp(n, lo, hi) == IF n < lo THEN lo ELSE IF n > hi THEN hi ELSE n
NormalIndex(vec, arg, default) ==
  LET a == Default(arg, H(default)) \div 2
  IN Clamp(IF a < 0 THEN a + vec.bitLength ELSE a, 0, vec.bitLength)

\* C7: subarray never throws: for any integers begin and end it returns a
\* vector, of length 0 when begin > end after normalisation.
C7_SubarrayNeverThrows ==
  (last.op = "subarray" /\ IsIntegerArg(last.args[1]) /\ IsIntegerArg(last.args[2])) =>
    LET parent == vecs[last.self]
        b == NormalIndex(parent, last.args[1], 0)
        e == NormalIndex(parent, last.args[2], parent.bitLength)
    IN /\ last.status = "ok"
       /\ b > e => vecs[last.ret[1]].bitLength = 0

\* C8: subarray(begin, end) returns a view of the same buffer with the window
\* (bitOffset + b, max(0, e - b)), b and e being begin and end normalised, so
\* the window lies inside the parent's.
C8_SubarrayWindow ==
  (last.op = "subarray" /\ IsIntegerArg(last.args[1]) /\ IsIntegerArg(last.args[2])) =>
    LET parent == vecs[last.self]
        b == NormalIndex(parent, last.args[1], 0)
        e == NormalIndex(parent, last.args[2], parent.bitLength)
    IN /\ last.status = "ok"
       /\ vecs[last.ret[1]] =
            Vec(parent.buffer, parent.bitOffset + b, IF e - b > 0 THEN e - b ELSE 0)
       /\ heap = last.pre

\* C9: a length that is negative or no integer is refused with an error, and
\* so is a view with a negative or fractional offset or length, with
\* offset > 8 * byteLength or with offset + length > 8 * byteLength (a
\* RangeError each time); then no vector is made and the buffer is as before.
\* Every other call makes the vector with the window (offset, length), the
\* length defaulting to 8 * byteLength - offset.
C9_ConstructionValidation ==
  /\ last.op = "newLength" =>
       LET n == Default(last.args[1], 0)
       IN IF ~IsInteger(n) \/ n < 0
          THEN last.status = "RangeError" /\ vecs = <<>> /\ heap = last.pre
          ELSE /\ last.status = "ok"
               /\ vecs = <<Vec(Len(heap), 0, n \div 2)>>
               /\ Len(heap) = Len(last.pre) + 1
               /\ heap[Len(heap)] = [k \in 1..Ceil8(n \div 2) |-> 0]
               /\ SubSeq(heap, 1, Len(last.pre)) = last.pre
  /\ last.op = "newView" =>
       LET bits == H(8 * Len(last.pre[last.args[1]]))
           off == Default(last.args[2], 0)
           len == Default(last.args[3], bits - off)
       IN IF \/ ~IsInteger(off) \/ off < 0
             \/ ~IsInteger(len) \/ len < 0
             \/ off > bits
             \/ off + len > bits
          THEN last.status = "RangeError" /\ vecs = <<>> /\ heap = last.pre
          ELSE /\ last.status = "ok"
               /\ vecs = <<Vec(last.args[1], off \div 2, len \div 2)>>
               /\ heap = last.pre

\* C9 happens: an offset and a length inside the buffer each, whose sum is
\* one bit past its end, are refused
C9_Witness ==
  /\ last.op = "newView"
  /\ last.args = <<1, Some(H(10)), Some(H(7))>>
  /\ last.status = "RangeError"
  /\ vecs = <<>>

Mutations == {"write", "fill", "set", "sort", "reverse"}

\* C5: an in-place change through a vector (an indexed write, fill, set, sort,
\* reverse), ended well or not, leaves every bit of the heap outside the
\* vector's window [bitOffset, bitOffset + bitLength) as it was.
C5_WritesStayInWindow ==
  last.op \in Mutations =>
    LET vec == vecs[last.self]
    IN /\ Len(heap) = Len(last.pre)
       /\ \A id \in 1..Len(heap) :
            /\ Len(heap[id]) = Len(last.pre[id])
            /\ \A p \in 0..(8 * Len(heap[id]) - 1) :
                 (id # vec.buffer \/ p < vec.bitOffset \/ p >= vec.bitOffset + vec.bitLength)
                   => BitAt(heap[id], p) = BitAt(last.pre[id], p)

\* C5 happens: fill(0) through the window (5, 4), which crosses a byte, has
\* cleared bits 5 to 8 of the buffer and no other
C5_Witness ==
  /\ vecs = <<Vec(1, 5, 4)>>
  /\ last.op = "fill" /\ last.args = <<0, Undefined, Undefined>> /\ last.status = "ok"
  /\ last.pre = <<<<165, 165>>>>
  /\ heap = <<<<160, 37>>>>

\* an index (in halves) that is negative, fractional or not below the length
OutOfBounds(vec, index) == ~IsInteger(index) \/ index < 0 \/ index >= H(vec.bitLength)

\* C6: element access out of bounds never raises: reading v[i] for i negative,
\* >= length or fractional yields undefined, and writing v[i] = x for such an i
\* raises no error and leaves the buffer and the window as they were.
C6_OutOfBoundsNeverRaises ==
  /\ (last.op = "read" /\ OutOfBounds(vecs[last.self], last.args[1])) =>
       last.status = "ok" /\ last.ret = Undefined /\ heap = last.pre
  /\ (last.op = "write" /\ OutOfBounds(vecs[last.self], last.args[1])) =>
       last.status = "ok" /\ heap = last.pre

\* C10: set(source, offset) ends in a RangeError when offset < 0 or
\* offset + source.length > bitLength, and then no bit of the heap has changed;
\* otherwise it returns, element offset + i is source[i] & 1 for every i and
\* every other element is as before.
C10_SetAllOrNothing ==
  last.op = "set" =>
    LET vec == vecs[last.self]
        items == last.args[1]
        off == Default(last.args[2], 0) \div 2
    IN IF off < 0 \/ off + Len(items) > vec.bitLength
       THEN last.status = "RangeError" /\ heap = last.pre
       ELSE /\ last.status = "ok"
            /\ \A i \in 0..(Len(items) - 1) :
                 Elem(heap, vec, off + i) = <<LowBit(items[i + 1])>>
            /\ \A j \in 0..(vec.bitLength - 1) :
                 (j < off \/ j >= off + Len(items))
                   => Elem(heap, vec, j) = Elem(last.pre, vec, j)

\* C10 happens: set([0, 0], 3) on a vector of 4 elements whose last element is
\* 1 is refused, the first source element fitting and the second not, and the
\* last element is still 1
C10_Witness ==
  /\ vecs = <<Vec(1, 5, 4)>>
  /\ last.op = "set" /\ last.args = <<(<<0, 0>>), Some(H(3))>>
  /\ last.status = "RangeError"
  /\ Elem(last.pre, vecs[1], 3) = <<1>>
  /\ Elem(heap, vecs[1], 3) = <<1>>

\* the elements of a vector in index order, and how many of them are 1
Contents(h, vec) == [k \in 1..vec.bitLength |-> Elem(h, vec, k - 1)[1]]
Ones(s) == Cardinality({k \in 1..Len(s) : s[k] = 1})

\* C12: sort() with the default comparator succeeds and returns the vector it
\* was called on, whose elements are then in ascending order (every 0 before
\* every 1), as many as before and with as many 1s as before.
C12_SortDefault ==
  last.op = "sort" =>
    LET vec == vecs[last.self]
        before == Contents(last.pre, vec)
        after == Contents(heap, vec)
    IN /\ last.status = "ok"
       /\ last.ret = <<last.self>>
       /\ Len(after) = Len(before)
       /\ Ones(after) = Ones(before)
       /\ \A i, j \in 1..Len(after) : i < j => after[i] <= after[j]

\* C12 happens: sort() on the vector [1, 0, 1, 0] has left [0, 0, 1, 1]
C12_Witness ==
  /\ last.op = "sort" /\ last.status = "ok"
  /\ Contents(last.pre, vecs[last.self]) = <<1, 0, 1, 0>>
  /\ Contents(heap, vecs[last.self]) = <<0, 0, 1, 1>>

\* C13: the vector constructed from an array (by the constructor, from or of)
\* has the length of the array and a buffer of its own, allocated by the call,
\* of ceil(length / 8) bytes; every element read at its index, and all of them
\* read in index order, are the low bits of the elements of the array, which
\* for an array of 0s and 1s is the array.
C13_RoundTrip ==
  /\ last.op = "newFrom" =>
       LET items == last.args[1]
       IN /\ last.status = "ok"
          /\ Len(heap) = Len(last.pre) + 1
          /\ SubSeq(heap, 1, Len(last.pre)) = last.pre
          /\ vecs[last.ret[1]] = Vec(Len(heap), 0, Len(items))
          /\ Len(heap[Len(heap)]) = (Len(items) + 7) \div 8
          /\ origin[last.ret[1]].items = items
  /\ (last.op = "read" /\ last.args[1] < H(vecs[last.self].bitLength)) =>
       /\ last.status = "ok"
       /\ last.ret = <<LowBit(origin[last.self].items[(last.args[1] \div 2) + 1])>>
  /\ last.op = "iterate" =>
       LET items == origin[last.self].items
       IN /\ last.status = "ok"
          /\ last.ret = [k \in 1..Len(items) |-> LowBit(items[k])]
          /\ (\A k \in 1..Len(items) : items[k] \in {0, 1}) => last.ret = items

\* C13 happens: the vector constructed from 9 elements, on a buffer of 2
\* bytes, has given them back
C13_Witness ==
  /\ last.op = "iterate"
  /\ origin[1].items = <<1, 0, 1, 1, 0, 0, 1, 0, 1>>
  /\ last.ret = <<1, 0, 1, 1, 0, 0, 1, 0, 1>>
  /\ heap[vecs[1].buffer] = <<178, 128>>

\* C14: for a vector a and s = a.subarray(p, q) with 0 <= p <= q <= length of
\* a, a.set(s, offset) with offset + (q - p) <= length of a succeeds and leaves
\* in element offset + i of a the value element p + i of a had before the call,
\* for every i in [0, q - p), the windows [p, q) and [offset, offset + q - p)
\* overlapping or not.
C14_SetFromAlias ==
  (/\ last.op = "setFrom"
   /\ origin[last.args[1]].parent = last.self
   /\ origin[last.args[1]].exact) =>
    LET a == vecs[last.self]
        p == origin[last.args[1]].x
        q == origin[last.args[1]].y
        offset == Default(last.args[2], 0) \div 2
    IN offset + (q - p) <= a.bitLength =>
         /\ last.status = "ok"
         /\ \A i \in 0..(q - p - 1) :
              Elem(heap, a, offset + i) = Elem(last.pre, a, p + i)

====
